---- MODULE Spec2Model ----
(***************************************************************************)
(* Model of the streaming sample cache AudioSamplerStream<SampleType>      *)
(* (src/AudioStream.h) on top of the container reader WavLoader            *)
(* (src/Timer.h, src/WavLoader.h) and a storage handle (FileWrapper).      *)
(*                                                                         *)
(* Buffers are not stored sample by sample.  A buffer (the lead-in buffer  *)
(* or one ring slot) is a sequence of layers [n, f, c]: "the first n bytes *)
(* were last written by one storage read of container c starting at file   *)
(* byte f".  The newest layer comes first; an older layer stays visible    *)
(* only beyond the bytes a newer, shorter read has overwritten.  A byte no  *)
(* layer covers was never written.                                         *)
(***************************************************************************)
EXTENDS Integers, Sequences, FiniteSets, TLC

(* ------------------------------------------------------------------ *)
(* Program constants                                                   *)
(* ------------------------------------------------------------------ *)
BlockSize == 4096
NumBlocks == 3
\* sizeof(SampleType) of the instantiation modelled: 16-bit samples
SampleBytes == 2
SamplesPerBlock == BlockSize \div SampleBytes
IntroBufCapacity == (BlockSize * 2) \div SampleBytes
IntMax == 2147483647
UnmappedBlock == IntMax
NoErr == "NoErr"
BadFile == "BadFile"
BadSampleSize == "BadSampleSize"
\* no storage handle bound (WavLoader::_file == NULL)
NULL == 0

\* Numbers are exact integers below 2^31.  Every sample count, byte offset
\* and cursor of the containers modelled stays below 2^31, so unsigned 32-bit
\* arithmetic on them does not wrap unless a comment says how the wrap is
\* computed.

(* ------------------------------------------------------------------ *)
(* Bounds of the model                                                 *)
(* ------------------------------------------------------------------ *)
\* whole ring blocks of sample data in the long container
MaxDataBlocks == 3
\* read calls between two moves of the cursor by load or a setter
MaxReads == 1
\* load calls in one run
MaxLoads == 1

\* Container seeks of one prime call that the model follows.  After a
\* successful load a call makes at most NumBlocks + 2 of them while storage
\* succeeds (distance 0 is tried twice, then one block per slot that starts
\* at the end of the file); a call that would seek more often (after a failed
\* reload, or with faults on top) is followed up to this number and dropped.
MaxTries == 5
\* injected storage faults (failed seek, empty read) in one run
MaxFaults == 1
\* further load calls in a run that loads again
MaxReloads == 1

Slots == 0 .. (NumBlocks - 1)

Min(a, b) == IF a < b THEN a ELSE b
Max(a, b) == IF a > b THEN a ELSE b
Abs(a) == IF a < 0 THEN -a ELSE a

(* ------------------------------------------------------------------ *)
(* Containers on storage: what WavLoader::open finds in them            *)
(* ------------------------------------------------------------------ *)
StreamContainers ==
  << \* 1: mono 16-bit, canonical 44-byte header, 4096 samples
     [opens |-> TRUE, bits |-> 16, block_align |-> 2, data_offset |-> 44,
      data_bytes |-> 8192, tail_bytes |-> 0],
     \* 2: the same header; lead-in, MaxDataBlocks whole blocks, 50 samples
     [opens |-> TRUE, bits |-> 16, block_align |-> 2, data_offset |-> 44,
      data_bytes |-> (2 * BlockSize - 44) + MaxDataBlocks * BlockSize + 100,
      tail_bytes |-> 0],
     \* 3: data chunk behind a long header chunk, not block aligned; the
     \*    stream ends with the first whole block behind the lead-in
     [opens |-> TRUE, bits |-> 16, block_align |-> 2, data_offset |-> 5000,
      data_bytes |-> (3 * BlockSize - 5000) + BlockSize, tail_bytes |-> 0],
     \* 4: short data chunk followed by another chunk
     [opens |-> TRUE, bits |-> 16, block_align |-> 2, data_offset |-> 44,
      data_bytes |-> 200, tail_bytes |-> 100],
     \* 5: 8-bit samples
     [opens |-> TRUE, bits |-> 8, block_align |-> 1, data_offset |-> 44,
      data_bytes |-> 1000, tail_bytes |-> 0],
     \* 6: cannot be opened
     [opens |-> FALSE, bits |-> 0, block_align |-> 0, data_offset |-> 0,
      data_bytes |-> 0, tail_bytes |-> 0] >>

\* Containers that differ in where the data chunk starts and in the frame
\* size, each long enough for the lead-in and two ring blocks behind it.
AlignData == 4 * (IntroBufCapacity + 2 * SamplesPerBlock)

AlignContainers ==
  << \* 7: mono 16-bit, canonical header
     [opens |-> TRUE, bits |-> 16, block_align |-> 2, data_offset |-> 44,
      data_bytes |-> AlignData, tail_bytes |-> 0],
     \* 8: mono 16-bit, data chunk at an odd byte (odd-sized chunk before it)
     [opens |-> TRUE, bits |-> 16, block_align |-> 2, data_offset |-> 45,
      data_bytes |-> AlignData, tail_bytes |-> 0],
     \* 9: stereo 16-bit, canonical header
     [opens |-> TRUE, bits |-> 16, block_align |-> 4, data_offset |-> 44,
      data_bytes |-> AlignData, tail_bytes |-> 0],
     \* 10: mono 16-bit, data chunk on a block boundary
     [opens |-> TRUE, bits |-> 16, block_align |-> 2, data_offset |-> BlockSize,
      data_bytes |-> AlignData, tail_bytes |-> 0],
     \* 11: mono 16-bit, data chunk behind the first block, not aligned
     [opens |-> TRUE, bits |-> 16, block_align |-> 2, data_offset |-> 5000,
      data_bytes |-> AlignData, tail_bytes |-> 0],
     \* 12: stereo 16-bit, data chunk on a block boundary
     [opens |-> TRUE, bits |-> 16, block_align |-> 4, data_offset |-> BlockSize,
      data_bytes |-> AlignData, tail_bytes |-> 0] >>

Containers == StreamContainers \o AlignContainers

ContainerIds == 1 .. Len(StreamContainers)

AlignIds == (Len(StreamContainers) + 1) .. Len(Containers)

FileLen(c) ==
  Containers[c].data_offset + Containers[c].data_bytes + Containers[c].tail_bytes

VARIABLES
  longBits,      \* width of long and size_t of the build: 32 (target) or 64 (host)
  wav,           \* WavLoader _file, _format, _length, _data_offset, _position
  storagePos,    \* byte position of the bound storage handle
  sampleIdx,     \* _sampleIdx (_readHead is set anew by read before every
                 \* use and by nothing else but load, so it holds no state)
  introBufSize,  \* _introBufSize
  introBuf,      \* _introBuf, as layers
  ringBuf,       \* _ringBuf, one layer sequence per slot
  bufBlockMap,   \* _bufBlockMap
  pr,            \* prime's position and locals
  lastLoad,      \* result of the latest load call
  lastOp,        \* the latest public call: its argument and return value and,
                 \* for read, the cursor before it and the copies it made
  readCount,     \* read calls since the cursor was last set
  loadCount,     \* load calls so far
  faultCount,    \* injected storage faults so far
  phase,         \* "free"; "held" once the caller only primes and leaves the
                 \* cursor alone; "settled" once prime has then returned false
  opn            \* WavLoader::open followed chunk by chunk: its position, the
                 \* reader's fields and the storage handle it was given

vars == << longBits, wav, storagePos, sampleIdx, introBufSize,
           introBuf, ringBuf, bufBlockMap, pr, lastLoad, lastOp, readCount,
           loadCount, faultCount, phase, opn >>

cacheVars == << introBufSize, introBuf, ringBuf, bufBlockMap >>

(* ------------------------------------------------------------------ *)
(* Buffers as layers                                                   *)
(* ------------------------------------------------------------------ *)
\* memcpy of n bytes read from container c at byte f to the buffer's start
WriteLayer(buf, n, f, c) ==
  IF n = 0 THEN buf
  ELSE << [n |-> n, f |-> f, c |-> c] >> \o SelectSeq(buf, LAMBDA l : l.n > n)

Unwritten == << 0, -1 >>

\* where byte k of a buffer comes from: << container, file byte >>
SrcByte(buf, k) ==
  LET hit == { i \in 1 .. Len(buf) : buf[i].n > k }
  IN IF hit = {} THEN Unwritten
     ELSE LET i == CHOOSE j \in hit : \A m \in hit : j <= m
          IN << buf[i].c, buf[i].f + k >>

(* ------------------------------------------------------------------ *)
(* WavLoader                                                           *)
(* ------------------------------------------------------------------ *)
numSamples == wav.length
frameAlignment == wav.block_align

filePositionForSample(sample_pos) ==
  LET clippedSamplePos == Min(sample_pos, numSamples)
  IN wav.data_offset + clippedSamplePos * frameAlignment

\* bytes a storage read of bufSize bytes transfers at byte position pos
StorageRead(c, pos, bufSize) ==
  IF pos >= FileLen(c) THEN 0 ELSE Min(bufSize, FileLen(c) - pos)


(* ------------------------------------------------------------------ *)
(* load                                                                *)
(* ------------------------------------------------------------------ *)
\* WavLoader::open on container c: the reader's fields afterwards
WavOpen(c) ==
  IF ~Containers[c].opens
  THEN [wav EXCEPT !.file = NULL]
  ELSE [file |-> c,
        bits |-> Containers[c].bits,
        block_align |-> Containers[c].block_align,
        length |-> Containers[c].data_bytes \div Containers[c].block_align,
        data_offset |-> Containers[c].data_offset,
        position |-> 0]

\* storage position when open has read the last chunk header
PosAfterOpen(c) ==
  IF Containers[c].tail_bytes > 0
  THEN Containers[c].data_offset + Containers[c].data_bytes + 8
  ELSE Containers[c].data_offset

\* the byte count loadIntroBuffer asks the container for
IntroBytes(fileOffset) ==
  IF fileOffset < BlockSize
  THEN (BlockSize - fileOffset) + BlockSize
  ELSE IF fileOffset % BlockSize # 0
       THEN ((((fileOffset \div BlockSize) * BlockSize) + BlockSize) - fileOffset)
            + BlockSize
       ELSE IntroBufCapacity * SampleBytes

\* variant: load unmaps slot 0 only
MapAfterLoadMut ==
  [i \in Slots |-> IF i = 0 THEN UnmappedBlock ELSE bufBlockMap[i]]

\* the block map a successful load leaves
MapAfterLoad == [i \in Slots |-> UnmappedBlock]

\* one call of load on container c
LoadBody(c) ==
  /\ pr.pc = "idle"
  /\ loadCount' = loadCount + 1
  /\ wav' = IF Containers[c].opens
            THEN IF Containers[c].bits # SampleBytes * 8
                 THEN WavOpen(c)
                 ELSE [WavOpen(c) EXCEPT !.position = Containers[c].data_offset]
            ELSE WavOpen(c)
  /\ IF ~Containers[c].opens
     THEN /\ lastLoad' = BadFile
          /\ UNCHANGED << storagePos, sampleIdx, cacheVars, readCount >>
     ELSE IF Containers[c].bits # SampleBytes * 8
     THEN /\ lastLoad' = BadSampleSize
          /\ storagePos' = PosAfterOpen(c)
          /\ UNCHANGED << sampleIdx, cacheVars, readCount >>
     ELSE LET fileOffset == Containers[c].data_offset
              numRead == StorageRead(c, fileOffset, IntroBytes(fileOffset))
          IN /\ introBuf' = WriteLayer(introBuf, numRead, fileOffset, c)
             /\ introBufSize' = IF numRead > 0 THEN numRead \div SampleBytes
                                ELSE introBufSize
             /\ storagePos' = fileOffset + numRead
             /\ sampleIdx' = 0
             /\ bufBlockMap' = MapAfterLoad
             /\ lastLoad' = NoErr
             /\ readCount' = 0
             /\ UNCHANGED ringBuf
  /\ lastOp' = [op |-> "load", arg |-> c, ret |-> lastLoad', pre |-> 0,
                segs |-> << >>]
  /\ UNCHANGED << longBits, opn, pr, faultCount, phase >>

\* the first loads of a run
Load(c) ==
  /\ loadCount < MaxLoads
  /\ LoadBody(c)

\* load called again on a stream that has been loaded and used
Reload(c) ==
  /\ loadCount >= MaxLoads
  /\ loadCount < MaxLoads + MaxReloads
  /\ LoadBody(c)

(* ------------------------------------------------------------------ *)
(* read                                                                *)
(* ------------------------------------------------------------------ *)
\* variant: the block-map scan of read starts at slot 1
FindSlotMut(fileBlock) ==
  LET hit == { i \in Slots \ { 0 } : bufBlockMap[i] = fileBlock }
  IN IF hit = {} THEN -1 ELSE CHOOSE i \in hit : \A j \in hit : i <= j

\* slot the block-map scan of read stops at, -1 when no entry matches
FindSlot(fileBlock) ==
  LET hit == { i \in Slots : bufBlockMap[i] = fileBlock }
  IN IF hit = {} THEN -1 ELSE CHOOSE i \in hit : \A j \in hit : i <= j

\* variant: the copy of a ring iteration is not clipped to the slot
RingCopyLenMut(fileBlockOffset, numSamplesLeft) == numSamplesLeft

\* the copy length of one ring iteration: clipped to the end of the slot
RingCopyLen(fileBlockOffset, numSamplesLeft) ==
  IF SamplesPerBlock - fileBlockOffset <= numSamplesLeft
  THEN SamplesPerBlock - fileBlockOffset
  ELSE numSamplesLeft

\* the while loop of read: cursor idx, numSamplesLeft, copies made so far
RECURSIVE ReadRing(_, _, _)
ReadRing(idx, left, segs) ==
  IF left = 0 THEN [idx |-> idx, left |-> left, segs |-> segs]
  ELSE LET rel == idx - introBufSize
           fileBlock == rel \div SamplesPerBlock
           fileBlockOffset == rel % SamplesPerBlock
           ringBufBlock == FindSlot(fileBlock)
           to_read == RingCopyLen(fileBlockOffset, left)
       IN IF ringBufBlock = -1
          THEN [idx |-> idx, left |-> left, segs |-> segs]
          ELSE ReadRing(idx + to_read, left - to_read,
                        Append(segs, [buf |-> "ring", slot |-> ringBufBlock,
                                      off |-> fileBlockOffset, pos |-> idx,
                                      len |-> to_read,
                                      data |-> ringBuf[ringBufBlock],
                                      block |-> bufBlockMap[ringBufBlock]]))

\* variant: the lead-in copy is clipped to the end of the stream as well
IntroCopyLenMut(idx, num_samples) ==
  IF idx + num_samples > Min(introBufSize, numSamples)
  THEN Min(introBufSize, numSamples) - idx
  ELSE num_samples

\* the copy length of the lead-in phase
IntroCopyLen(idx, num_samples) ==
  IF idx + num_samples > introBufSize THEN introBufSize - idx ELSE num_samples

\* read(buf, num_samples) at the present cursor
ReadCall(num_samples) ==
  IF sampleIdx < introBufSize
  THEN LET to_read == IntroCopyLen(sampleIdx, num_samples)
       IN ReadRing(sampleIdx + to_read, num_samples - to_read,
                   << [buf |-> "intro", slot |-> -1, off |-> sampleIdx,
                       pos |-> sampleIdx, len |-> to_read, data |-> introBuf,
                       block |-> -1] >>)
  ELSE ReadRing(sampleIdx, num_samples, << >>)

ReadSizes == { 0, 10, 5000 }

\* variant: read leaves the container positioned at the cursor
ReadBodyMut(num_samples) ==
  LET r == ReadCall(num_samples)
  IN /\ readCount < MaxReads
     /\ readCount' = readCount + 1
     /\ sampleIdx' = r.idx
     /\ storagePos' = filePositionForSample(r.idx)
     /\ lastOp' = [op |-> "read", arg |-> num_samples, ret |-> num_samples - r.left,
                   pre |-> sampleIdx, segs |-> r.segs]
     /\ UNCHANGED << longBits, opn, wav, cacheVars, pr, lastLoad, loadCount,
                     faultCount, phase >>

\* one call of read: the cursor moves on by what was copied
ReadBody(num_samples) ==
  LET r == ReadCall(num_samples)
  IN /\ readCount < MaxReads
     /\ readCount' = readCount + 1
     /\ sampleIdx' = r.idx
     /\ lastOp' = [op |-> "read", arg |-> num_samples, ret |-> num_samples - r.left,
                   pre |-> sampleIdx, segs |-> r.segs]
     /\ UNCHANGED << longBits, opn, wav, storagePos, cacheVars, pr, lastLoad, loadCount,
                     faultCount, phase >>

\* read called while no prime call is in progress
Read(num_samples) ==
  /\ pr.pc = "idle"
  /\ ReadBody(num_samples)

(* ------------------------------------------------------------------ *)
(* cursor setters                                                      *)
(* ------------------------------------------------------------------ *)
SeekTargets ==
  { 0, 4090, introBufSize + SamplesPerBlock, numSamples, numSamples + 1 }

SetterFrame(op, arg, ret) ==
  /\ readCount' = IF sampleIdx' = sampleIdx THEN readCount ELSE 0
  /\ lastOp' = [op |-> op, arg |-> arg, ret |-> ret, pre |-> 0,
                segs |-> << >>]
  /\ UNCHANGED << longBits, opn, wav, storagePos, cacheVars, pr, lastLoad,
                  loadCount, faultCount, phase >>

setSampleIndex(sampleIndex) ==
  /\ pr.pc = "idle"
  /\ sampleIdx' = Min(sampleIndex, numSamples)
  /\ SetterFrame("setSampleIndex", sampleIndex, TRUE)

\* the function ends without a return statement: the value the caller sees
\* is whatever the build leaves in the return register
set_sample_index(sampleIndex, ret) ==
  /\ pr.pc = "idle"
  /\ sampleIdx' = IF sampleIndex < numSamples THEN sampleIndex ELSE sampleIdx
  /\ SetterFrame("set_sample_index", sampleIndex, ret)

reset ==
  /\ pr.pc = "idle"
  /\ sampleIdx' = Min(0, numSamples)
  /\ SetterFrame("reset", 0, TRUE)

(* ------------------------------------------------------------------ *)
(* prime                                                               *)
(* ------------------------------------------------------------------ *)
PrIdle == [pc |-> "idle", rhb |-> 0, idx |-> 0, maxDiff |-> 0, absDiff |-> 0,
           sign |-> 0, block |-> 0, seeks |-> 0, reads |-> 0]

\* number of blocks after which the low 32 bits of block * SamplesPerBlock
\* repeat: 2^32 / SamplesPerBlock (SamplesPerBlock is a power of two)
Period == 2 * ((IntMax \div SamplesPerBlock) + 1)

\* block modulo the wrap of block * SamplesPerBlock: the product is exact
\* where long has 64 bits and keeps its low 32 bits on the 32-bit target
Wrapped(block) == IF longBits = 32 THEN block % Period ELSE block

\* The range test breaks when
\*     block * SamplesPerBlock > _file.numSamples() - _introBufSize,
\* both sides unsigned.  For unsigned x and R, x * S > R exactly when
\* x > R \div S, so the test is stated on block numbers.  The right-hand
\* side wraps when the lead-in is longer than the stream: to 2^32 + d on the
\* 32-bit target, whose quotient by SamplesPerBlock is Period + d \div
\* SamplesPerBlock, and to 2^64 + d on the host, above every product.
LastBlockInRange ==
  LET d == numSamples - introBufSize
  IN IF d >= 0 THEN d \div SamplesPerBlock
     ELSE IF longBits = 32 THEN Period + (d \div SamplesPerBlock)
          ELSE IntMax

\* the range test of the candidate scan: TRUE when the scan breaks
OutOfRange(block) == Wrapped(block) > LastBlockInRange

\* variant: the held test of prime starts at slot 1
HeldMut(block) == \E i \in Slots \ { 0 } : bufBlockMap[i] = block

\* the block is in a slot already: the scan of prime continues
Held(block) == \E i \in Slots : bufBlockMap[i] = block

readHeadBlock ==
  IF sampleIdx >= introBufSize
  THEN (sampleIdx - introBufSize) \div SamplesPerBlock
  ELSE 0

Diff(i, rhb) == Abs(bufBlockMap[i] - rhb)

\* the eviction slot: the first slot of the largest distance
EvictIdx(rhb) ==
  CHOOSE i \in Slots :
    /\ \A j \in Slots : Diff(j, rhb) <= Diff(i, rhb)
    /\ \A j \in Slots : j < i => Diff(j, rhb) < Diff(i, rhb)

\* block tried at distance absDiff: ahead for sign 0, behind for sign 1
BlockAt(rhb, absDiff, sign) == IF sign = 0 THEN rhb + absDiff ELSE rhb - absDiff

\* the scan reaches the storage access at <<absDiff, sign>>: the block ahead
\* did not break the sign loop, the block itself is in range and in no slot
IsCand(rhb, absDiff, sign) ==
  LET block == BlockAt(rhb, absDiff, sign)
  IN /\ ~OutOfRange(rhb + absDiff)
     /\ block >= 0
     /\ ~OutOfRange(block)
     /\ ~Held(block)

\* first of a set of loop positions in the order of the two for loops
\* (Q is the value of P, computed once)
FirstPos(P) ==
  CHOOSE r \in { IF Q = {} THEN << >>
                 ELSE CHOOSE p \in Q :
                        \A q \in Q : p[1] < q[1] \/ (p[1] = q[1] /\ p[2] <= q[2])
                 : Q \in { P } } : TRUE

\* variant: the distance loop runs up to maxDiff inclusive
CandsInLeMut(rhb, maxDiff, a0, s0, D) ==
  { p \in D \X {0, 1} :
      /\ p[1] <= maxDiff
      /\ p[1] > a0 \/ (p[1] = a0 /\ p[2] >= s0)
      /\ IsCand(rhb, p[1], p[2]) }

\* variant: candidates need not be nearer than the block evicted
CandsInMut(rhb, maxDiff, a0, s0, D) ==
  { p \in D \X {0, 1} :
      /\ p[1] > a0 \/ (p[1] = a0 /\ p[2] >= s0)
      /\ IsCand(rhb, p[1], p[2]) }

\* candidates among the distances of D from loop position <<a0, s0>> on
CandsIn(rhb, maxDiff, a0, s0, D) ==
  { p \in D \X {0, 1} :
      /\ p[1] < maxDiff
      /\ p[1] > a0 \/ (p[1] = a0 /\ p[2] >= s0)
      /\ IsCand(rhb, p[1], p[2]) }

\* On the 32-bit build the blocks in range come in runs that start at the
\* multiples of Period.  A run's first block outside every slot is among its
\* first NumBlocks + 1 blocks, so the runs are searched one by one.
RECURSIVE FarCand(_, _, _, _, _)
FarCand(rhb, maxDiff, a0, s0, p) ==
  IF p * Period - rhb >= maxDiff THEN << >>
  ELSE LET start == p * Period - rhb
           c == FirstPos(CandsIn(rhb, maxDiff, a0, s0, start .. (start + NumBlocks)))
       IN IF c # << >> THEN c ELSE FarCand(rhb, maxDiff, a0, s0, p + 1)

\* The first loop position from <<a0, s0>> on at which the scan of prime
\* reaches the storage access, << >> when the loops run out.  Distances at
\* which the block ahead is out of range break at once and are passed over.
FirstCand(rhb, maxDiff, a0, s0) ==
  LET near == FirstPos(CandsIn(rhb, maxDiff, a0, s0,
                               a0 .. Max(a0 + NumBlocks, rhb)))
  IN IF near # << >> THEN near
     ELSE IF longBits = 32
          THEN FarCand(rhb, maxDiff, a0, s0, Max(1, (rhb + a0) \div Period))
          ELSE << >>

\* prime's locals when its loops go on from <<a0, s0>>
Scan(p, a0, s0) ==
  LET c == FirstCand(p.rhb, p.maxDiff, a0, s0)
  IN IF c = << >> THEN [p EXCEPT !.pc = "return"]
     ELSE [p EXCEPT !.pc = "seek", !.absDiff = c[1], !.sign = c[2],
                    !.block = BlockAt(p.rhb, c[1], c[2])]

\* a step of prime that leaves the locals at nxt; the call returns false
\* when the loops have run out
PrimeGoesOn(nxt) ==
  IF nxt.pc = "return"
  THEN /\ pr' = PrIdle
       /\ lastOp' = [op |-> "prime", arg |-> nxt.reads, ret |-> FALSE,
                     pre |-> 0, segs |-> << >>]
       /\ phase' = IF phase = "held" THEN "settled" ELSE phase
  ELSE /\ pr' = nxt
       /\ lastOp' = [op |-> "priming", arg |-> nxt.reads, ret |-> FALSE,
                     pre |-> 0, segs |-> << >>]
       /\ UNCHANGED phase

\* entry of prime up to the first storage access or the return
PrimeStart ==
  /\ pr.pc = "idle"
  /\ \E rhb \in { readHeadBlock } :
       \E idx \in { EvictIdx(rhb) } :
         \E maxDiff \in { Diff(idx, rhb) } :
           \E nxt \in { Scan([PrIdle EXCEPT !.rhb = rhb, !.idx = idx,
                                            !.maxDiff = maxDiff], 0, 0) } :
             /\ nxt.pc = "seek" => wav.file # NULL
             /\ PrimeGoesOn(nxt)
  /\ UNCHANGED << longBits, opn, wav, storagePos, sampleIdx, cacheVars,
                  lastLoad, readCount, loadCount, faultCount >>

\* variant: the seek leaves out the lead-in size
SeekArgMut(block) ==
  LET m == block % Period
  IN IF m < Period \div 2 THEN m * SamplesPerBlock ELSE IntMax

\* the sample index prime asks the container to seek to
\* (block * SamplesPerBlock) + _introBufSize, cut to 32 bits, and then clipped
\* by filePositionForSample.  Below 2^31 the sum is exact.  From 2^31 on it is
\* above numSamples unless adding the lead-in size carries out of 32 bits;
\* IntMax stands for every sum that filePositionForSample clips.
SeekArg(block) ==
  LET m == block % Period
      half == Period \div 2
  IN IF m < half /\ m * SamplesPerBlock <= IntMax - introBufSize
     THEN m * SamplesPerBlock + introBufSize
     ELSE IF m < half THEN IntMax
     ELSE LET low == ((m - half) * SamplesPerBlock - IntMax - 1) + introBufSize
          IN IF low >= 0 THEN low ELSE IntMax

\* _file.seek succeeds
PrimeSeek ==
  /\ pr.pc = "seek"
  /\ pr.seeks < MaxTries
  /\ wav' = [wav EXCEPT !.position = filePositionForSample(SeekArg(pr.block))]
  /\ storagePos' = filePositionForSample(SeekArg(pr.block))
  /\ pr' = [pr EXCEPT !.pc = "read", !.seeks = @ + 1]
  /\ UNCHANGED << longBits, opn, sampleIdx, cacheVars, lastLoad, lastOp,
                  readCount, loadCount, faultCount, phase >>

\* _file.seek fails: the sign loop breaks
PrimeSeekFail ==
  /\ pr.pc = "seek"
  /\ faultCount < MaxFaults
  /\ faultCount' = faultCount + 1
  /\ pr.seeks < MaxTries
  /\ wav' = [wav EXCEPT !.position = filePositionForSample(SeekArg(pr.block))]
  /\ \E nxt \in { Scan([pr EXCEPT !.seeks = @ + 1], pr.absDiff + 1, 0) } :
        PrimeGoesOn(nxt)
  /\ UNCHANGED << longBits, opn, storagePos, sampleIdx, cacheVars, lastLoad,
                  readCount, loadCount >>

\* loop position after <<absDiff, sign>>
NextPos(absDiff, sign) ==
  IF sign = 0 THEN << absDiff, 1 >> ELSE << absDiff + 1, 0 >>

\* _file.read into the eviction slot
PrimeRead ==
  /\ pr.pc = "read"
  /\ LET numRead == StorageRead(wav.file, storagePos, BlockSize)
         after == [pr EXCEPT !.reads = @ + 1]
         np == NextPos(pr.absDiff, pr.sign)
     IN /\ ringBuf' = [ringBuf EXCEPT
                         ![pr.idx] = WriteLayer(@, numRead, storagePos, wav.file)]
        /\ storagePos' = storagePos + numRead
        /\ IF numRead > 0
           THEN /\ pr' = [after EXCEPT !.pc = "publish"]
                /\ UNCHANGED << lastOp, phase >>
           ELSE \E nxt \in { Scan(after, np[1], np[2]) } : PrimeGoesOn(nxt)
  /\ UNCHANGED << longBits, opn, wav, sampleIdx, introBufSize, introBuf,
                  bufBlockMap, lastLoad, readCount, loadCount, faultCount >>

\* _file.read transfers nothing although bytes are left
PrimeReadFail ==
  /\ pr.pc = "read"
  /\ faultCount < MaxFaults
  /\ faultCount' = faultCount + 1
  /\ StorageRead(wav.file, storagePos, BlockSize) > 0
  /\ LET np == NextPos(pr.absDiff, pr.sign)
     IN \E nxt \in { Scan([pr EXCEPT !.reads = @ + 1], np[1], np[2]) } :
           PrimeGoesOn(nxt)
  /\ UNCHANGED << longBits, opn, wav, storagePos, sampleIdx, cacheVars,
                  lastLoad, readCount, loadCount >>

\* the block-map entry of the eviction slot is set and prime returns true
PrimePublish ==
  /\ pr.pc = "publish"
  /\ bufBlockMap' = [bufBlockMap EXCEPT ![pr.idx] = pr.block]
  /\ pr' = PrIdle
  /\ lastOp' = [op |-> "prime", arg |-> pr.reads, ret |-> TRUE,
                pre |-> 0, segs |-> << >>]
  /\ UNCHANGED << longBits, opn, wav, storagePos, sampleIdx, introBufSize,
                  introBuf, ringBuf, lastLoad, readCount, loadCount, faultCount, phase >>

(* ------------------------------------------------------------------ *)
(* WavLoader::open, chunk by chunk                                     *)
(* ------------------------------------------------------------------ *)
\* sizeof(RIFFChunkHeader), sizeof(chunk_tag_t), sizeof(WavFormat)
HeaderBytes == 8
TagBytes == 4
FormatBytes == 16

\* open calls on one reader
MaxOpens == 2

FmtChunk(block_align) ==
  [tag |-> "fmt ", size |-> FormatBytes, block_align |-> block_align, bits |-> 16]
DataChunk(size) == [tag |-> "data", size |-> size, block_align |-> 0, bits |-> 0]
OtherChunk(size) == [tag |-> "LIST", size |-> size, block_align |-> 0, bits |-> 0]

\* Files on storage as open sees them: whether the handle opens, whether the
\* first tag is RIFF and the type tag WAVE, the chunks in file order, and the
\* number of bytes missing at the end of the file.  The declared RIFF size
\* always covers exactly the chunks listed.
ChunkFile(exists, riff, wave, chunks, cut) ==
  [exists |-> exists, riff |-> riff, wave |-> wave, chunks |-> chunks, cut |-> cut]

ChunkFiles ==
  << ChunkFile(TRUE, TRUE, TRUE, << FmtChunk(2), DataChunk(8192) >>, 0),
     ChunkFile(TRUE, TRUE, TRUE, << DataChunk(8192), FmtChunk(2) >>, 0),
     ChunkFile(TRUE, TRUE, TRUE, << OtherChunk(26), FmtChunk(2), DataChunk(8192) >>, 0),
     ChunkFile(TRUE, TRUE, TRUE, << FmtChunk(2), OtherChunk(26), DataChunk(8192) >>, 0),
     ChunkFile(TRUE, TRUE, TRUE, << FmtChunk(4), DataChunk(8192), OtherChunk(26) >>, 0),
     ChunkFile(TRUE, TRUE, TRUE, << DataChunk(8192), OtherChunk(26), FmtChunk(2) >>, 0),
     \* no data chunk, no fmt chunk, neither
     ChunkFile(TRUE, TRUE, TRUE, << FmtChunk(2), OtherChunk(26) >>, 0),
     ChunkFile(TRUE, TRUE, TRUE, << DataChunk(8192) >>, 0),
     ChunkFile(TRUE, TRUE, TRUE, << OtherChunk(26) >>, 0),
     \* wrong tags
     ChunkFile(TRUE, FALSE, TRUE, << FmtChunk(2), DataChunk(8192) >>, 0),
     ChunkFile(TRUE, TRUE, FALSE, << FmtChunk(2), DataChunk(8192) >>, 0),
     \* files that end inside the RIFF header (4 bytes left), inside the WAVE
     \* tag (10), inside the first chunk header (16), inside the fmt payload
     \* (30), and with the fmt chunk only (36)
     ChunkFile(TRUE, TRUE, TRUE, << FmtChunk(2), DataChunk(8) >>, 48),
     ChunkFile(TRUE, TRUE, TRUE, << FmtChunk(2), DataChunk(8) >>, 42),
     ChunkFile(TRUE, TRUE, TRUE, << FmtChunk(2), DataChunk(8) >>, 36),
     ChunkFile(TRUE, TRUE, TRUE, << FmtChunk(2), DataChunk(8) >>, 22),
     ChunkFile(TRUE, TRUE, TRUE, << FmtChunk(2), DataChunk(8) >>, 16),
     \* a file that cannot be opened
     ChunkFile(FALSE, TRUE, TRUE, << >>, 0) >>

ChunkFileIds == 1 .. Len(ChunkFiles)

\* byte at which the header of chunk i starts; i = Len(chunks) + 1 gives the
\* length the RIFF header declares
RECURSIVE ChunkPos(_, _)
ChunkPos(chunks, i) ==
  IF i = 1 THEN HeaderBytes + TagBytes
  ELSE ChunkPos(chunks, i - 1) + HeaderBytes + chunks[i - 1].size

DeclaredBytes(f) == ChunkPos(ChunkFiles[f].chunks, Len(ChunkFiles[f].chunks) + 1)

StorageBytes(f) == DeclaredBytes(f) - ChunkFiles[f].cut

\* bytes _file->read(buf, n) transfers at byte position pos of file f
FileRead(f, pos, n) == Max(0, Min(n, StorageBytes(f) - pos))

\* the chunk whose header starts at byte pos
ChunkAt(f, pos) ==
  LET chunks == ChunkFiles[f].chunks
  IN chunks[CHOOSE i \in 1 .. Len(chunks) : ChunkPos(chunks, i) = pos]

\* The reader as its constructor leaves it (_position is not initialised; no
\* path reads it before open or seek sets it) and no open call in progress.
OpnIdle ==
  [pc |-> "idle", n |-> 0, f |-> 0, file |-> NULL, handle |-> "closed",
   opened |-> FALSE, closes |-> 0, pos |-> 0, next |-> 0,
   block_align |-> 0, bits |-> 0, length |-> 0, data_offset |-> 0,
   file_size |-> 0, position |-> 0, ret |-> "none"]

\* _file->close(); return false;
OpenFail(o) ==
  [o EXCEPT !.handle = "closed", !.closes = @ + 1, !.ret = FALSE, !.pc = "done"]

OpenFrame ==
  UNCHANGED << longBits, wav, storagePos, sampleIdx, cacheVars, pr, lastLoad,
               lastOp, readCount, loadCount, phase >>

\* open(wrapper) up to the result of _file->open()
OpenStart(f) ==
  /\ opn.pc \in { "idle", "done" }
  /\ opn.n < MaxOpens
  /\ LET o == [opn EXCEPT !.n = @ + 1, !.f = f, !.closes = 0, !.ret = "none",
                          !.handle = "closed", !.opened = FALSE, !.pos = 0]
     IN opn' = IF ChunkFiles[f].exists
               THEN [o EXCEPT !.file = f, !.handle = "open", !.opened = TRUE,
                              !.pc = "seek0"]
               ELSE [o EXCEPT !.file = NULL, !.ret = FALSE, !.pc = "done"]
  /\ UNCHANGED faultCount
  /\ OpenFrame

\* _file->seek(0) succeeds
OpenSeek0 ==
  /\ opn.pc = "seek0"
  /\ opn' = [opn EXCEPT !.pos = 0, !.pc = "riff"]
  /\ UNCHANGED faultCount
  /\ OpenFrame

\* _file->seek(0) fails
OpenSeek0Fail ==
  /\ opn.pc = "seek0"
  /\ faultCount < MaxFaults
  /\ faultCount' = faultCount + 1
  /\ opn' = [opn EXCEPT !.file = NULL, !.ret = FALSE, !.pc = "done"]
  /\ OpenFrame

\* the RIFF header is read and verified
OpenRiff ==
  /\ opn.pc = "riff"
  /\ LET numRead == FileRead(opn.f, opn.pos, HeaderBytes)
         o == [opn EXCEPT !.pos = @ + numRead]
     IN opn' = IF numRead # HeaderBytes \/ ~ChunkFiles[opn.f].riff
               THEN OpenFail(o)
               ELSE [o EXCEPT !.file_size = numRead + (DeclaredBytes(opn.f) - HeaderBytes),
                              !.pc = "wave"]
  /\ UNCHANGED faultCount
  /\ OpenFrame

\* the type tag is read and verified
OpenWave ==
  /\ opn.pc = "wave"
  /\ LET numRead == FileRead(opn.f, opn.pos, TagBytes)
         o == [opn EXCEPT !.pos = @ + numRead]
     IN opn' = IF numRead # TagBytes \/ ~ChunkFiles[opn.f].wave
               THEN OpenFail(o)
               ELSE [o EXCEPT !.pc = "chunk"]
  /\ UNCHANGED faultCount
  /\ OpenFrame

\* A chunk header is read; a data chunk sets _length and _data_offset.  The
\* division chunk_size / _format.block_align is undefined for a zero
\* block_align: the call traps (host) or the division routine returns 0
\* (target).
OpenChunk ==
  /\ opn.pc = "chunk"
  /\ LET numRead == FileRead(opn.f, opn.pos, HeaderBytes)
         pos == opn.pos + numRead
         o == [opn EXCEPT !.pos = pos]
     IN IF numRead # HeaderBytes
        THEN opn' = OpenFail(o)
        ELSE LET header == ChunkAt(opn.f, opn.pos)
                 h == [o EXCEPT !.next = pos + header.size]
             IN IF header.tag = "fmt "
                THEN opn' = [h EXCEPT !.pc = "fmt"]
                ELSE IF header.tag = "data"
                THEN IF opn.block_align = 0
                     THEN \/ opn' = [h EXCEPT !.pc = "trap"]
                          \/ opn' = [h EXCEPT !.length = 0, !.data_offset = pos,
                                              !.pc = "next"]
                     ELSE opn' = [h EXCEPT
                                    !.length = header.size \div opn.block_align,
                                    !.data_offset = pos, !.pc = "next"]
                ELSE opn' = [h EXCEPT !.pc = "next"]
  /\ UNCHANGED faultCount
  /\ OpenFrame

\* the payload of the fmt chunk is read into _format
OpenFmt ==
  /\ opn.pc = "fmt"
  /\ LET numRead == FileRead(opn.f, opn.pos, FormatBytes)
         o == [opn EXCEPT !.pos = @ + numRead]
         header == ChunkAt(opn.f, opn.pos - HeaderBytes)
     IN opn' = IF numRead # FormatBytes
               THEN OpenFail(o)
               ELSE [o EXCEPT !.block_align = header.block_align,
                              !.bits = header.bits, !.pc = "next"]
  /\ UNCHANGED faultCount
  /\ OpenFrame

\* the end of the loop body: done, or on to the next chunk
OpenNext ==
  /\ opn.pc = "next"
  /\ opn' = IF opn.file_size <= opn.next
            THEN [opn EXCEPT !.position = 0, !.ret = TRUE, !.pc = "done"]
            ELSE [opn EXCEPT !.pos = opn.next, !.pc = "chunk"]
  /\ UNCHANGED faultCount
  /\ OpenFrame

\* _file->seek(next_chunk_pos) fails
OpenNextFail ==
  /\ opn.pc = "next"
  /\ opn.file_size > opn.next
  /\ faultCount < MaxFaults
  /\ faultCount' = faultCount + 1
  /\ opn' = OpenFail(opn)
  /\ OpenFrame

(* ------------------------------------------------------------------ *)
(* Specifications                                                      *)
(* ------------------------------------------------------------------ *)
\* After construction: _file empty, _introBufSize 0; the cursor, the read
\* head and the block map are not initialised by the constructor.
Init ==
  /\ longBits \in { 32, 64 }
  /\ wav = [file |-> NULL, bits |-> 0, block_align |-> 0, length |-> 0,
            data_offset |-> 0, position |-> 0]
  /\ storagePos = 0
  /\ sampleIdx \in { 0, 5 }
  /\ introBufSize = 0
  /\ introBuf = << >>
  /\ ringBuf = [i \in Slots |-> << >>]
  /\ bufBlockMap \in { [i \in Slots |-> 0], [i \in Slots |-> UnmappedBlock] }
  /\ pr = PrIdle
  /\ lastLoad = "none"
  /\ lastOp = [op |-> "none", arg |-> 0, ret |-> FALSE, pre |-> 0, segs |-> << >>]
  /\ readCount = 0
  /\ loadCount = 0
  /\ faultCount = 0
  /\ phase = "free"
  /\ opn = OpnIdle

Prime == PrimeStart \/ PrimeSeek \/ PrimeSeekFail \/ PrimeRead \/ PrimeReadFail
           \/ PrimePublish

\* every public call runs to its end before the next one starts
Next ==
  \/ \E c \in ContainerIds : Load(c)
  \/ \E n \in ReadSizes : Read(n)
  \/ \E i \in SeekTargets : setSampleIndex(i)
  \/ \E i \in SeekTargets, ret \in BOOLEAN : set_sample_index(i, ret)
  \/ reset
  \/ PrimeStart
  \/ PrimeSeek
  \/ PrimeSeekFail
  \/ PrimeRead
  \/ PrimeReadFail
  \/ PrimePublish

Spec == Init /\ [][Next]_vars

\* read called from the sample interrupt while prime is between two of its
\* steps in the fill context
ReadISR(num_samples) ==
  /\ pr.pc # "idle"
  /\ ReadBody(num_samples)

NextConc ==
  \/ Next
  \/ \E n \in ReadSizes : ReadISR(n)

\* the two contexts of the real-time driver: the fill context runs prime,
\* the sample interrupt runs read between any two steps of it
SpecConc == Init /\ [][NextConc]_vars

\* from here on the caller only primes
Hold ==
  /\ phase = "free"
  /\ pr.pc = "idle"
  /\ lastLoad = NoErr
  /\ phase' = "held"
  /\ UNCHANGED << longBits, opn, wav, storagePos, sampleIdx, cacheVars, pr, lastLoad,
                  lastOp, readCount, loadCount, faultCount >>

\* prime with every storage seek and read succeeding
PrimeOK == PrimeStart \/ PrimeSeek \/ PrimeRead \/ PrimePublish

NextHold ==
  \/ phase = "free" /\ Next
  \/ Hold
  \/ phase # "free" /\ PrimeOK

\* The timer callback of the fill context calls prime again and again, and a
\* call that has started runs on: weak fairness of prime's steps.
SpecHold == Init /\ [][NextHold]_vars /\ WF_vars(phase # "free" /\ PrimeOK)

NextReload ==
  \/ \E c \in ContainerIds : Load(c)
  \/ \E c \in ContainerIds : Reload(c)
  \/ \E n \in ReadSizes : Read(n)
  \/ PrimeStart
  \/ PrimeSeek
  \/ PrimeRead
  \/ PrimePublish

\* a caller that loads, primes and reads from the start of the stream, and
\* then loads again; storage succeeds
SpecReload == Init /\ [][NextReload]_vars

NextAlign ==
  \/ \E c \in AlignIds : Load(c)
  \/ \E i \in SeekTargets : setSampleIndex(i)
  \/ PrimeStart
  \/ PrimeSeek
  \/ PrimeRead
  \/ PrimePublish

\* a caller that loads a container of any data offset and frame size, moves
\* the cursor and primes; storage succeeds
SpecAlign == Init /\ [][NextAlign]_vars

NextOpen ==
  \/ \E f \in ChunkFileIds : OpenStart(f)
  \/ OpenSeek0
  \/ OpenSeek0Fail
  \/ OpenRiff
  \/ OpenWave
  \/ OpenChunk
  \/ OpenFmt
  \/ OpenNext
  \/ OpenNextFail

\* a reader that is opened on one file after another
SpecOpen == Init /\ [][NextOpen]_vars

(* ------------------------------------------------------------------ *)
(* Properties                                                          *)
(* ------------------------------------------------------------------ *)
Loaded == lastLoad = NoErr

AfterRead == lastOp.op = "read"

\* the copies the latest read made out of ring slots
RingSegs == { i \in 1 .. Len(lastOp.segs) : lastOp.segs[i].buf = "ring" }

\* C1: after a successful load a read issued at cursor c delivers at most
\* numSamples - c samples and leaves the cursor at or below numSamples.
C1_ReadStopsAtEnd ==
  (Loaded /\ AfterRead) =>
     /\ lastOp.pre + lastOp.ret <= numSamples
     /\ sampleIdx <= numSamples

\* The slot content a copy was taken from is the block the slot's map entry
\* named: the slot's latest storage read was taken from this container at the
\* byte position prime seeks to for that block, and took all the container
\* has there.
SegHoldsNamedBlock(seg) ==
  /\ seg.data # << >>
  /\ LET f == filePositionForSample(SeekArg(seg.block))
     IN /\ Head(seg.data).c = wav.file
        /\ Head(seg.data).f = f
        /\ Head(seg.data).n = StorageRead(wav.file, f, BlockSize)

\* C2: with read running between any two steps of prime, every copy read
\* takes out of a ring slot is taken from a slot whose content is the file
\* block its block-map entry names at that moment.
C2_ReadSeesNamedBlock ==
  (Loaded /\ AfterRead) =>
     \A i \in RingSegs : SegHoldsNamedBlock(lastOp.segs[i])

\* C3: after a successful load no two slots whose block-map entry is not the
\* unmapped sentinel carry the same file-block index.
C3_NoDuplicateBlocks ==
  Loaded =>
    \A i, j \in Slots :
      (i # j /\ bufBlockMap[i] # UnmappedBlock) => bufBlockMap[i] # bufBlockMap[j]

C3_Witness ==
  /\ Loaded
  /\ lastOp.op = "prime" /\ lastOp.ret = TRUE
  /\ \A i \in Slots : bufBlockMap[i] # UnmappedBlock

\* C4: one invocation of prime issues at most one storage read, also when a
\* read returns zero bytes or a seek fails.
C4_OneStorageReadPerPrime ==
  /\ pr.reads <= 1
  /\ lastOp.op \in { "prime", "priming" } => lastOp.arg <= 1

\* C5: once the caller only primes, with the cursor left alone and storage
\* succeeding, prime returns false after finitely many calls, and from then
\* on no prime call returns true or changes the block map.
C5_PrimeSettles ==
  /\ (phase = "held") ~> (phase = "settled")
  /\ [][phase = "settled" =>
          /\ bufBlockMap' = bufBlockMap
          /\ lastOp'.op = "prime" => lastOp'.ret = FALSE]_vars

C5_Witness ==
  /\ phase = "settled"
  /\ lastOp.op = "prime" /\ lastOp.ret = FALSE
  /\ \A i \in Slots : bufBlockMap[i] # UnmappedBlock

\* C6: after a successful load a read of n samples at cursor c with
\* c + n <= introBufSize returns n, whatever the block map holds.
C6_LeadInNeverMisses ==
  (Loaded /\ AfterRead /\ lastOp.pre + lastOp.arg <= introBufSize) =>
     lastOp.ret = lastOp.arg

C6_Witness ==
  /\ Loaded /\ AfterRead
  /\ lastOp.arg > 0
  /\ lastOp.pre + lastOp.arg <= introBufSize
  /\ \A i \in Slots : bufBlockMap[i] = UnmappedBlock
  /\ lastOp.ret = lastOp.arg

\* Byte positions of a copy at which the source may change: its first byte
\* and every layer end inside it.  Between two of them the bytes of the
\* buffer and the bytes of the data chunk both advance one by one.
SegBreaks(seg, startB, endB) ==
  { startB } \cup
    ({ seg.data[i].n : i \in 1 .. Len(seg.data) } \cap (startB .. (endB - 1)))

\* the samples of a copy that lie below numSamples are the samples of the
\* data chunk at their stream positions
SegMatchesChunk(seg) ==
  LET valid == Min(seg.pos + seg.len, numSamples) - seg.pos
      startB == seg.off * SampleBytes
      endB == startB + valid * SampleBytes
  IN valid > 0 =>
       \A k \in SegBreaks(seg, startB, endB) :
          SrcByte(seg.data, k) =
            << wav.file, wav.data_offset + seg.pos * frameAlignment + (k - startB) >>

\* C7: for a mono container of 16-bit samples, after a successful load every
\* sample read delivers for a position below numSamples is that sample of
\* the data chunk, from the lead-in buffer and from the ring slots alike.
C7_DeliveredSamplesMatch ==
  (Loaded /\ AfterRead) =>
     \A i \in 1 .. Len(lastOp.segs) : SegMatchesChunk(lastOp.segs[i])

C7_Witness ==
  /\ Loaded /\ AfterRead
  /\ \E i \in 1 .. Len(lastOp.segs) :
        lastOp.segs[i].buf = "intro" /\ lastOp.segs[i].len > 0
  /\ \E i \in RingSegs :
        /\ lastOp.segs[i].len > 0
        /\ lastOp.segs[i].pos + lastOp.segs[i].len <= numSamples

\* C8: a read step does not seek or read the container and leaves the storage
\* position, the block map, the ring slots and the lead-in buffer as they
\* were.
C8_ReadTouchesCursorOnly ==
  [][readCount' = readCount + 1 =>
        /\ wav' = wav
        /\ storagePos' = storagePos
        /\ bufBlockMap' = bufBlockMap
        /\ ringBuf' = ringBuf
        /\ introBuf' = introBuf
        /\ introBufSize' = introBufSize]_vars

C8_Witness ==
  /\ Loaded /\ AfterRead
  /\ lastOp.ret > 0
  /\ RingSegs # {}
  /\ sampleIdx # lastOp.pre

\* C9: read of n samples returns r with 0 <= r <= n, moves the cursor by r,
\* and returns r < n only when the cursor is then at the end of the stream or
\* in a block no slot holds.
C9_ReadContract ==
  AfterRead =>
    /\ 0 <= lastOp.ret /\ lastOp.ret <= lastOp.arg
    /\ sampleIdx = lastOp.pre + lastOp.ret
    /\ lastOp.ret < lastOp.arg =>
         \/ sampleIdx >= numSamples
         \/ /\ sampleIdx >= introBufSize
            /\ ~Held((sampleIdx - introBufSize) \div SamplesPerBlock)

C9_Witness ==
  /\ Loaded /\ AfterRead
  /\ 0 < lastOp.ret /\ lastOp.ret < lastOp.arg
  /\ sampleIdx < numSamples
  /\ \E i \in Slots : bufBlockMap[i] # UnmappedBlock

\* C10: after a successful load either cursor setter called with index i
\* leaves the cursor at min(i, numSamples), and reset leaves it at 0.
C10_SettersClip ==
  Loaded =>
    /\ lastOp.op \in { "setSampleIndex", "set_sample_index" } =>
         sampleIdx = Min(lastOp.arg, numSamples)
    /\ lastOp.op = "reset" => sampleIdx = 0

\* every storage seek and read so far has succeeded
StorageOK == faultCount = 0

PrimeNoFill == lastOp.op = "prime" /\ lastOp.ret = FALSE

\* file blocks of the ring region the range test of prime lets pass
InRangeBlocks == 0 .. LastBlockInRange

MappedBlocks == { bufBlockMap[i] : i \in Slots } \ { UnmappedBlock }

\* block a comes before block b in the order nearest first, ahead before
\* behind at equal distance
Nearer(rhb, a, b) ==
  \/ Abs(a - rhb) < Abs(b - rhb)
  \/ Abs(a - rhb) = Abs(b - rhb) /\ a > b

\* the min(NumBlocks, number of blocks in range) blocks in range nearest rhb
NearestBlocks(rhb) ==
  { b \in InRangeBlocks :
      Cardinality({ a \in InRangeBlocks : Nearer(rhb, a, b) }) < NumBlocks }

\* C11: when prime returns false after a successful load with storage
\* succeeding, the mapped blocks are exactly the nearest in-range blocks
\* around readHeadBlock (stated where the stream is at least as long as the
\* lead-in, so that the blocks in range are 0 .. LastBlockInRange).
C11_NoFillMeansNearestCached ==
  (Loaded /\ StorageOK /\ PrimeNoFill /\ numSamples >= introBufSize) =>
     MappedBlocks = NearestBlocks(readHeadBlock)

\* file blocks of the ring region that hold at least one sample of the stream
StreamBlocks ==
  { b \in InRangeBlocks : introBufSize + b * SamplesPerBlock < numSamples }

\* blocks of the stream in no slot and nearer than the block to be evicted
Wanted(rhb, maxDiff) ==
  { b \in StreamBlocks : ~Held(b) /\ Abs(b - rhb) < maxDiff }

\* the first wanted block in the order r, r+1, r-1, r+2, r-2, ...
FirstWanted(rhb, maxDiff) ==
  { b \in Wanted(rhb, maxDiff) :
      \A a \in Wanted(rhb, maxDiff) : ~Nearer(rhb, a, b) }

\* the block a fill is about to publish is the first wanted block
FillTakesFirstWanted ==
  pr.pc = "publish" => FirstWanted(pr.rhb, pr.maxDiff) = { pr.block }

\* a call that returns false has left no wanted block behind
NoFillLeavesNoneWanted ==
  PrimeNoFill =>
     Wanted(readHeadBlock, Diff(EvictIdx(readHeadBlock), readHeadBlock)) = {}

\* the scan does not reach the storage access for distance 0 a second time
DistanceZeroOnce == ~(pr.pc = "seek" /\ pr.absDiff = 0 /\ pr.sign = 1)

\* C19: after a successful load with storage succeeding, prime fills with
\* the first block in the order r, r+1, r-1, r+2, r-2, ... that is a block of
\* the stream, in no slot and nearer than the evicted one; a block ahead that
\* is out of range does not keep the block behind from being loaded; and the
\* block at distance 0 is tried once.
C19_ScanOrder ==
  (Loaded /\ StorageOK /\ numSamples >= introBufSize) =>
     /\ FillTakesFirstWanted
     /\ NoFillLeavesNoneWanted
     /\ DistanceZeroOnce

\* C18: after a successful seek(i) of the container reader, position() is
\* the clipped sample index min(i, numSamples) and the storage handle is at
\* byte data_offset + min(i, numSamples) * frameAlignment.  The reader is
\* sought by loadIntroBuffer (i = 0, the state after a successful load) and
\* by prime (i = SeekArg(block), the state before prime's storage read).
C18_SeekRecordsSampleIndex ==
  /\ (lastOp.op = "load" /\ lastOp.ret = NoErr) => wav.position = Min(0, numSamples)
  /\ (Loaded /\ pr.pc = "read") =>
        /\ wav.position = Min(SeekArg(pr.block), numSamples)
        /\ storagePos = wav.data_offset
                          + Min(SeekArg(pr.block), numSamples) * frameAlignment

\* bytes the lead-in read of load obtains from container c
LeadInRead(c) ==
  StorageRead(c, Containers[c].data_offset, IntroBytes(Containers[c].data_offset))

\* load of container c gets as far as the lead-in read and the read is short
LeadInShort(c) ==
  /\ Containers[c].opens
  /\ Containers[c].bits = SampleBytes * 8
  /\ LeadInRead(c) < IntroBytes(Containers[c].data_offset)

\* C20: when the lead-in read of load returns fewer bytes than the span
\* asked for, the lead-in size is the number of samples obtained and load
\* returns BadFile.
C20_ShortLeadInIsBadFile ==
  (lastOp.op = "load" /\ LeadInShort(lastOp.arg)) =>
     /\ introBufSize = LeadInRead(lastOp.arg) \div SampleBytes
     /\ lastOp.ret = BadFile

\* what load on container c is to return
LoadStatus(c) ==
  IF ~Containers[c].opens THEN BadFile
  ELSE IF Containers[c].bits # SampleBytes * 8 THEN BadSampleSize
  ELSE NoErr

\* C13: load returns BadFile when the container cannot be opened,
\* BadSampleSize when its bits per sample are not 8 * sizeof(SampleType), and
\* NoErr otherwise, then with the cursor at 0 and every block-map entry
\* unmapped; the same on a stream loaded and primed before.
C13_LoadResult ==
  lastOp.op = "load" =>
    /\ lastOp.ret = LoadStatus(lastOp.arg)
    /\ lastLoad = lastOp.ret
    /\ lastOp.ret = NoErr =>
         /\ sampleIdx = 0
         /\ \A i \in Slots : bufBlockMap[i] = UnmappedBlock

\* a successful second load on a stream whose slots prime had filled
C13_Witness ==
  /\ loadCount = MaxLoads + 1
  /\ lastOp.op = "load" /\ lastOp.ret = NoErr
  /\ \A i \in Slots : ringBuf[i] # << >>
  /\ \A i \in Slots : bufBlockMap[i] = UnmappedBlock
  /\ sampleIdx = 0

\* the latest load call returned BadFile or BadSampleSize
LoadFailed == lastLoad \in { BadFile, BadSampleSize }

\* C14: from a load that returns BadFile or BadSampleSize until a later load
\* succeeds, every read returns 0 and no prime call fills a slot; the same
\* when the failed load follows a successful load and prime calls.
C14_FailedLoadDisablesCache ==
  LoadFailed =>
    /\ AfterRead => lastOp.ret = 0
    /\ lastOp.op = "prime" => lastOp.ret = FALSE
    /\ pr.pc # "publish"

\* C12: after a successful load whose lead-in read was not short, whatever
\* the data offset and the frame size, the byte the storage handle is at when
\* prime has sought block b, which is data_offset + (introBufSize + b *
\* SamplesPerBlock) * frameAlignment, is a multiple of BlockSize (stated for
\* the seeks filePositionForSample does not clip to the end of the data).
C12_FillsAreBlockAligned ==
  (/\ Loaded
   /\ pr.pc = "read"
   /\ ~LeadInShort(wav.file)
   /\ SeekArg(pr.block) <= numSamples) =>
     storagePos % BlockSize = 0

\* open has returned
OpenReturned == opn.pc = "done"

\* C15: when open returns false after the storage handle was opened, the
\* handle's close was called in that call and the handle is closed.
C15_FailedOpenCloses ==
  (OpenReturned /\ opn.ret = FALSE /\ opn.opened) =>
     /\ opn.closes >= 1
     /\ opn.handle = "closed"

TagsOf(f) == [i \in 1 .. Len(ChunkFiles[f].chunks) |-> ChunkFiles[f].chunks[i].tag]

CountTag(f, tag) == Cardinality({ i \in DOMAIN TagsOf(f) : TagsOf(f)[i] = tag })

\* RIFF and WAVE tags in place, nothing missing, declared size consistent
WellTagged(f) ==
  /\ ChunkFiles[f].exists /\ ChunkFiles[f].riff /\ ChunkFiles[f].wave
  /\ ChunkFiles[f].cut = 0

\* one fmt chunk and one data chunk, in any order, among other chunks
Complete(f) ==
  /\ WellTagged(f)
  /\ CountTag(f, "fmt ") = 1
  /\ CountTag(f, "data") = 1

IndexOf(f, tag) == CHOOSE i \in DOMAIN TagsOf(f) : TagsOf(f)[i] = tag

\* C16: on a file with RIFF header, WAVE tag and one fmt and one data chunk
\* in any order among other chunks, open does not fail and returns true with
\* the format of the fmt chunk, data_offset at the payload of the data chunk
\* and length = data size / frame size, storage seeks succeeding.
C16_AnyChunkOrder ==
  (opn.n > 0 /\ Complete(opn.f) /\ StorageOK) =>
    /\ opn.pc # "trap"
    /\ OpenReturned =>
         LET chunks == ChunkFiles[opn.f].chunks
             fmt == chunks[IndexOf(opn.f, "fmt ")]
             data == IndexOf(opn.f, "data")
         IN /\ opn.ret = TRUE
            /\ opn.block_align = fmt.block_align
            /\ opn.bits = fmt.bits
            /\ opn.data_offset = ChunkPos(chunks, data) + HeaderBytes
            /\ opn.length = chunks[data].size \div fmt.block_align

\* C17: on a file with RIFF and WAVE tags and a consistent size that has no
\* fmt chunk or no data chunk, open returns false.
C17_MissingChunkFails ==
  (/\ OpenReturned
   /\ WellTagged(opn.f)
   /\ CountTag(opn.f, "fmt ") = 0 \/ CountTag(opn.f, "data") = 0) =>
     opn.ret = FALSE

\* C21: read terminates whatever the cache holds and whatever is asked for:
\* every iteration of its ring loop that does not leave on a miss has found
\* its slot within the NumBlocks map entries and copies at least one sample
\* and at most what is left of the slot, so the loop makes no more
\* iterations than samples were asked for.
C21_ReadLoopBounded ==
  AfterRead =>
    /\ \A i \in RingSegs :
         /\ lastOp.segs[i].slot \in Slots
         /\ lastOp.segs[i].len >= 1
         /\ lastOp.segs[i].len <= SamplesPerBlock - lastOp.segs[i].off
    /\ Cardinality(RingSegs) <= lastOp.arg
    /\ Cardinality(RingSegs) <= lastOp.ret

\* a read that went round the ring loop more than once, the first copy
\* clipped to the end of its slot
C21_Witness ==
  /\ AfterRead
  /\ Cardinality(RingSegs) >= 2
  /\ \E i \in RingSegs :
        /\ lastOp.segs[i].off > 0
        /\ lastOp.segs[i].len = SamplesPerBlock - lastOp.segs[i].off
  /\ lastOp.ret < lastOp.arg

\* a step that completes a fill: prime sets a block-map entry and returns true
FillStep == pr.pc = "publish" /\ pr'.pc = "idle"

\* the cursor is still in the block it was in when the prime call in
\* progress, if any, computed readHeadBlock
InBlockSinceEntry == pr.pc # "idle" => pr.rhb = readHeadBlock

\* a step, of prime or of read, that keeps the cursor inside its block and
\* is not a load
CursorStays ==
  /\ InBlockSinceEntry
  /\ readHeadBlock' = readHeadBlock
  /\ introBufSize' = introBufSize
  /\ loadCount' = loadCount

\* C22: every fill changes the map entry of one slot only and puts there a
\* block strictly nearer to readHeadBlock than the block it replaces (the
\* unmapped sentinel being further than every block); and while the cursor
\* stays inside its block, also when read moves it there between the steps of
\* prime, a slot that holds the block at the read head keeps its map entry
\* and its content through every step of prime.
C22_FillsComeNearer ==
  [][/\ (FillStep /\ InBlockSinceEntry) =>
          \E i \in Slots :
            /\ \A j \in Slots \ { i } : bufBlockMap'[j] = bufBlockMap[j]
            /\ bufBlockMap'[i] # UnmappedBlock
            /\ Abs(bufBlockMap'[i] - readHeadBlock)
                 < Abs(bufBlockMap[i] - readHeadBlock)
     /\ CursorStays =>
          \A j \in Slots :
            bufBlockMap[j] = readHeadBlock =>
              /\ bufBlockMap'[j] = bufBlockMap[j]
              /\ ringBuf'[j] = ringBuf[j]]_vars

\* read has moved the cursor on inside its block, which a slot holds, while
\* prime is about to replace a mapped block in another slot
C22_Witness ==
  /\ Loaded /\ AfterRead
  /\ lastOp.ret > 0
  /\ pr.pc = "publish"
  /\ sampleIdx >= introBufSize
  /\ pr.rhb = readHeadBlock
  /\ Held(readHeadBlock)
  /\ bufBlockMap[pr.idx] # UnmappedBlock

====
